---- MODULE Spec2Model ----
(***************************************************************************)
(* Model of SmartCampusNetworkxExperiment (src/campus_net_experiment.py):  *)
(* construction, the trial loop of run_all_experiments, run_experiment and *)
(* get_reachability.  Graph objects live in a heap of references, so that  *)
(* the in-place removals of get_reachability land on the object that was   *)
(* passed in.  The state holds one experiment per replica: one replica for *)
(* the ordinary specification, two replicas of the same configuration for  *)
(* the determinism claim (self-composition).                               *)
(***************************************************************************)
EXTENDS Integers, Sequences, FiniteSets, TLC

VARIABLES cfg, exp

vars == <<cfg, exp>>

\* ------------------------------------------------------------- bounds
MaxRuns == 2
MaxTrees == 2
MaxSubscribers == 3
MaxFailed == 1

\* ------------------------------------------------------------ values
\* An optional value (Python's None or a value) is a set of at most one element.
None == {}

SeedOptions == {None, {1}}

MCAST_HEURISTIC == "closure"

\* float(a) / b for 0 <= a <= b, 0 < b: the quotient in lowest terms <<num, den>>,
\* so that two equal floats are equal values.
RECURSIVE Gcd(_, _)
Gcd(a, b) == IF b = 0 THEN a ELSE Gcd(b, a % b)

FloatDiv(a, b) == <<a \div Gcd(a, b), b \div Gcd(a, b)>>

Zero == <<0, 1>>

One == <<1, 1>>

Half == <<1, 2>>

\* a >= b on quotients
FloatGeq(a, b) == a[1] * b[2] >= b[1] * a[2]

\* ------------------------------------------------------------ graphs
\* A graph object: nodes, undirected edges {u, v} and the graph attribute 'heuristic'.
Edge(u, v) == {u, v}

Graph(nodes, edges, heuristic) == [nodes |-> nodes, edges |-> edges, heuristic |-> heuristic]

\* Graph.remove_edges_from: edges that are not in the graph are ignored.
remove_edges_from(G, ebunch) == [G EXCEPT !.edges = @ \ ebunch]

\* Graph.remove_nodes_from: nodes that are not in the graph are ignored; the edges
\* of a removed node go with it.
remove_nodes_from(G, nbunch) ==
    [G EXCEPT !.nodes = @ \ nbunch,
              !.edges = {e \in @ : e \cap nbunch = {}}]

Neighbors(G, v) == {w \in G.nodes : Edge(v, w) \in G.edges}

\* The level-by-level traversal of nx.single_source_shortest_path.
RECURSIVE BFS(_, _, _)
BFS(G, seen, thislevel) ==
    IF thislevel = {} THEN seen
    ELSE LET nextlevel == (UNION {Neighbors(G, v) : v \in thislevel}) \ seen
         IN BFS(G, seen \cup nextlevel, nextlevel)

\* Mutant: the traversal cut off after one hop (cutoff=1).
single_source_shortest_path_cutoff(G, source) == {source} \cup Neighbors(G, source)

\* The keys of nx.single_source_shortest_path(G, source), for a source in G.
single_source_shortest_path(G, source) == BFS(G, {source}, {source})

\* ------------------------------------------------------------- heap
TopoRef == <<"topo">>

TopoCopyRef == <<"topo_copy">>

TreeRef(i) == <<"tree", i>>

\* ------------------------------------------------- external components
\* NetworkxSdnTopology(*topo[1:]): a campus with one server s, hosts a and b and a
\* switch c; the variant "noservers" designates no server.
CampusNodes == {"s", "a", "b", "c"}

CampusEdges == {Edge("s", "a"), Edge("a", "b"), Edge("s", "c"), Edge("c", "a")}

NetworkxSdnTopology(args) ==
    [hosts |-> {"a", "b"},
     servers |-> IF args = <<"noservers">> THEN {} ELSE {"s"},
     topo |-> Graph(CampusNodes, CampusEdges, "")]

TopoSpecs == {<<"networkx">>, <<"networkx", "noservers">>, <<"mininet">>}

\* The nodes an edge set touches, with the source.
TreeNodes(source, edges) == {source} \cup UNION edges

\* A tree of the topology that holds the source: connected, acyclic, at least one
\* edge, every leaf the source or a subscriber.
IsTree(G, source, subscribers, edges) ==
    LET T == Graph(TreeNodes(source, edges), edges, "")
    IN /\ edges # {}
       /\ edges \subseteq G.edges
       /\ Cardinality(edges) = Cardinality(T.nodes) - 1
       /\ BFS(T, {source}, {source}) = T.nodes
       /\ \A v \in T.nodes \ ({source} \cup subscribers) :
              Cardinality(Neighbors(T, v)) > 1

CandidateTrees(G, source, subscribers) ==
    {Graph(TreeNodes(source, edges), edges, "") :
        edges \in {E \in SUBSET G.edges : IsTree(G, source, subscribers, E)}}

\* All sequences over S of length at most n.
SeqsUpTo(S, n) == UNION {[1..k -> S] : k \in 0..n}

\* get_redundant_multicast_trees(source, subscribers, k, heuristic): at most k trees.
get_redundant_multicast_trees(G, source, subscribers, k) ==
    SeqsUpTo(CandidateTrees(G, source, subscribers), k)

\* FailureModel.apply_failure_model(topology): a set of nodes and a set of links
\* of the topology, at most MaxFailed of them together.
failure_model_apply(G) ==
    {f \in [nodes : SUBSET G.nodes, links : SUBSET G.edges] :
        Cardinality(f.nodes) + Cardinality(f.links) <= MaxFailed}

\* ---------------------------------------------------- get_reachability
\* Mutant: the subscribers a graph reaches replace the accumulated set
\* (an assignment in place of all_subscribers_reachable.update).
RECURSIVE ReachabilityLoopOverwrite(_, _, _, _, _, _, _)
ReachabilityLoopOverwrite(heap, failed_nodes, failed_links, server, subscribers, topologies, all) ==
    IF topologies = <<>>
    THEN [heap |-> heap, all |-> all, err |-> "none"]
    ELSE LET ref == Head(topologies)
             pruned == remove_nodes_from(remove_edges_from(heap[ref], failed_links),
                                         failed_nodes)
             heap2 == [heap EXCEPT ![ref] = pruned]
         IN IF server \notin pruned.nodes
            THEN [heap |-> heap2, all |-> all, err |-> "KeyError"]
            ELSE ReachabilityLoopOverwrite(heap2, failed_nodes, failed_links, server,
                     subscribers, Tail(topologies),
                     subscribers \cap single_source_shortest_path(pruned, server))

\* The loop of get_reachability over the graph references `topologies`: each graph
\* is pruned in place, then traversed from the server.  The traversal of a graph
\* that does not hold the server raises (G[server]: KeyError in networkx 1.x,
\* NodeNotFound in 2.x).
RECURSIVE ReachabilityLoop(_, _, _, _, _, _, _)
ReachabilityLoop(heap, failed_nodes, failed_links, server, subscribers, topologies, all) ==
    IF topologies = <<>>
    THEN [heap |-> heap, all |-> all, err |-> "none"]
    ELSE LET ref == Head(topologies)
             pruned == remove_nodes_from(remove_edges_from(heap[ref], failed_links),
                                         failed_nodes)
             heap2 == [heap EXCEPT ![ref] = pruned]
         IN IF server \notin pruned.nodes
            THEN [heap |-> heap2, all |-> all, err |-> "KeyError"]
            ELSE ReachabilityLoop(heap2, failed_nodes, failed_links, server, subscribers,
                     Tail(topologies),
                     all \cup (subscribers \cap single_source_shortest_path(pruned, server)))

get_reachability(heap, failed_nodes, failed_links, server, subscribers, topologies) ==
    LET l == ReachabilityLoop(heap, failed_nodes, failed_links, server, subscribers,
                              topologies, {})
    IN IF l.err # "none" THEN [heap |-> l.heap, err |-> l.err, res |-> Zero]
       ELSE IF subscribers = {}
       THEN [heap |-> l.heap, err |-> "ZeroDivisionError", res |-> Zero]
       ELSE [heap |-> l.heap, err |-> "none",
             res |-> FloatDiv(Cardinality(l.all), Cardinality(subscribers))]

\* ------------------------------------------------------- configuration
\* SmartCampusFailureModel(failure_rand_seed=seed): the failure model owns a random
\* stream seeded with `seed`; get_params() reports its configuration.
SmartCampusFailureModel(seed) == [failure_rand_seed |-> seed]

\* **kwargs: a set of <<key, value>> pairs.
KwHas(kwargs, key) == \E p \in kwargs : p[1] = key

KwGet(kwargs, key) == (CHOOSE p \in kwargs : p[1] = key)[2]

\* How the constructor is called: directly with no failure model and no further
\* keyword, or as build_from_args calls it, with the failure model built from the
\* parsed arguments and failure_rand_seed among the keywords.
CallShapes ==
    {[failure_model |-> None, kwargs |-> {}]} \cup
    {[failure_model |-> {SmartCampusFailureModel(s)},
      kwargs |-> {<<"failure_rand_seed", s>>}] : s \in SeedOptions}

Config(nruns, ntrees, nsubscribers, topo, choice_rand_seed, rand_seed, call) ==
    [nruns |-> nruns, ntrees |-> ntrees, nsubscribers |-> nsubscribers, topo |-> topo,
     choice_rand_seed |-> choice_rand_seed, rand_seed |-> rand_seed,
     failure_model |-> call.failure_model, kwargs |-> call.kwargs]

Configs ==
    {Config(n, t, s, tp, cs, rs, call) :
        n \in 0..MaxRuns, t \in 0..MaxTrees, s \in 0..MaxSubscribers, tp \in TopoSpecs,
        cs \in SeedOptions, rs \in SeedOptions, call \in CallShapes}

\* ------------------------------------------------------------ the object
NoParams == [unset |-> TRUE]

NoResult == [unset |-> TRUE]

NoTopology == [hosts |-> {}, servers |-> {}]

NoHeap == [ref \in {} |-> Graph({}, {}, "")]

\* The experiment before __init__ has run.
NewExperiment ==
    [pc |-> "init", err |-> "none", raised_in |-> "",
     failure_model |-> SmartCampusFailureModel(None),
     topo |-> NoTopology, heap |-> NoHeap,
     results |-> [results |-> <<>>, params |-> NoParams],
     random |-> 0, written |-> <<>>,
     r |-> 0, subs |-> {}, server |-> "", failed_nodes |-> {}, failed_links |-> {},
     trees |-> <<>>, result |-> NoResult]

\* An exception nothing catches ends the program; raised_in is the step it left.
Raise(e, name) == [e EXCEPT !.pc = "error", !.err = name, !.raised_in = e.pc]

\* The head of `for r in range(self.nruns)`, entered with r trials completed, and
\* the fall through to output_results.  The locals of the finished iteration are
\* dead and are dropped.
NextIteration(e, c, r) ==
    [e EXCEPT !.r = r,
              !.pc = IF r < c.nruns THEN "choose_subscribers" ELSE "output_results",
              !.subs = {}, !.server = "", !.failed_nodes = {}, !.failed_links = {},
              !.trees = <<>>, !.result = NoResult,
              !.heap = [ref \in {TopoRef} |-> @[TopoRef]]]

\* __init__, then the call of run_all_experiments.
Params(c, failure_model) ==
    [ntrees |-> c.ntrees, nsubscribers |-> c.nsubscribers,
     failure_model |-> failure_model, topo |-> c.topo, randseed |-> c.choice_rand_seed]

\* The 'HACK' of lines 69-73: kwargs['failure_rand_seed'] on a dict raises KeyError
\* when the key is missing; the handler names IndexError and does not catch it.
SaveFailRandSeed(params, kwargs) ==
    IF KwHas(kwargs, "failure_rand_seed")
    THEN [err |-> "none",
          params |-> [failrandseed |-> KwGet(kwargs, "failure_rand_seed")] @@ params]
    ELSE [err |-> "KeyError", params |-> params]

construct(e, c) ==
    LET fm == IF c.failure_model = None THEN SmartCampusFailureModel(None)
              ELSE CHOOSE m \in c.failure_model : TRUE
    IN IF c.topo[1] # "networkx"
       THEN Raise([e EXCEPT !.failure_model = fm], "NotImplementedError")
       ELSE LET topology == NetworkxSdnTopology(Tail(c.topo))
                saved == SaveFailRandSeed(Params(c, fm), c.kwargs)
                built == [e EXCEPT !.failure_model = fm,
                                   !.topo = [hosts |-> topology.hosts,
                                             servers |-> topology.servers],
                                   !.heap = [ref \in {TopoRef} |-> topology.topo],
                                   !.results = [results |-> <<>>, params |-> saved.params]]
            IN IF saved.err # "none" THEN Raise(built, saved.err)
               ELSE NextIteration(built, c, 0)

\* choose_subscribers: random.sample raises ValueError for a sample larger than
\* the population.
SampleOutcomes(e, c) ==
    IF c.nsubscribers > Cardinality(e.topo.hosts)
    THEN {[err |-> "ValueError", val |-> {}]}
    ELSE {[err |-> "none", val |-> S] :
             S \in {X \in SUBSET e.topo.hosts : Cardinality(X) = c.nsubscribers}}

choose_subscribers(e, d) ==
    IF d.err # "none" THEN Raise(e, d.err)
    ELSE [e EXCEPT !.subs = d.val, !.random = @ + 1, !.pc = "choose_server"]

\* choose_server: random.choice raises IndexError for an empty sequence.
ChoiceOutcomes(e) ==
    IF e.topo.servers = {} THEN {[err |-> "IndexError", val |-> ""]}
    ELSE {[err |-> "none", val |-> v] : v \in e.topo.servers}

choose_server(e, d) ==
    IF d.err # "none" THEN Raise(e, d.err)
    ELSE [e EXCEPT !.server = d.val, !.random = @ + 1, !.pc = "apply_failure_model"]

apply_failure_model(e, d) ==
    [e EXCEPT !.failed_nodes = d.nodes, !.failed_links = d.links,
              !.pc = "build_mcast_trees"]

\* build_mcast_trees: the trees the provider returned become graph objects of
\* their own, each tagged with the heuristic.
build_mcast_trees(e, d) ==
    [e EXCEPT !.heap = [i \in {TreeRef(k) : k \in 1..Len(d)} |->
                           [d[i[2]] EXCEPT !.heuristic = MCAST_HEURISTIC]] @@ @,
              !.trees = [k \in 1..Len(d) |-> TreeRef(k)],
              !.pc = "run_experiment"]

\* Mutant: the topology itself is checked, not a copy of it.
TopoAlias(heap) == [heap |-> heap, ref |-> TopoRef]

\* topo_copy = self.topo.topo.copy(): a new graph object equal to the topology.
TopoCopy(heap) ==
    [heap |-> [ref \in {TopoCopyRef} |-> heap[TopoRef]] @@ heap, ref |-> TopoCopyRef]

\* Mutant: the two values stored under each other's key.
MakeResultSwapped(oracle, oracle_res, heuristic, trees_res) ==
    (heuristic :> oracle_res) @@ (oracle :> trees_res)

\* result[topo_copy.graph['heuristic']] = res; ...; result[heuristic] = res
MakeResult(oracle, oracle_res, heuristic, trees_res) ==
    (heuristic :> trees_res) @@ (oracle :> oracle_res)

run_experiment(e) ==
    LET copy == TopoCopy(e.heap)
        heap1 == [copy.heap EXCEPT ![copy.ref].heuristic = "oracle"]
        first == get_reachability(heap1, e.failed_nodes, e.failed_links, e.server,
                                  e.subs, <<copy.ref>>)
        second == get_reachability(first.heap, e.failed_nodes, e.failed_links, e.server,
                                   e.subs, e.trees)
    IN IF first.err # "none" THEN Raise([e EXCEPT !.heap = first.heap], first.err)
       ELSE IF second.err # "none" THEN Raise([e EXCEPT !.heap = second.heap], second.err)
       ELSE IF e.trees = <<>> THEN Raise([e EXCEPT !.heap = second.heap], "IndexError")
       ELSE [e EXCEPT !.heap = second.heap,
                      !.result = MakeResult(second.heap[copy.ref].heuristic, first.res,
                                            second.heap[e.trees[1]].heuristic, second.res),
                      !.pc = "record_result"]

\* Mutant: the run index counted from one.
record_result_from_one(e, c) ==
    LET result == ("run" :> e.r + 1) @@ e.result
    IN NextIteration([e EXCEPT !.results.results = Append(@, result)], c, e.r + 1)

\* result['run'] = r; self.record_result(result); and the next iteration.
record_result(e, c) ==
    LET result == ("run" :> e.r) @@ e.result
    IN NextIteration([e EXCEPT !.results.results = Append(@, result)], c, e.r + 1)

\* output_results: the results document is written to the output file.
output_results(e) ==
    [e EXCEPT !.written = Append(@, e.results), !.pc = "done"]

\* --------------------------------------------------------------- streams
Replicas == DOMAIN exp

At(p) == {x \in Replicas : exp[x].pc = p}

\* random.Random(seed), random.seed(seed): two streams seeded alike give the same
\* draws; a stream seeded with None is seeded from the system's entropy.
SameStream(seedA, seedB) == seedA # None /\ seedA = seedB

\* Mutant: self.random built without the seed.
ChoiceSeedDropped(x) == None

ChoiceSeed(x) == cfg[x].choice_rand_seed

FailureSeed(x) == exp[x].failure_model.failure_rand_seed

GlobalSeed(x) == cfg[x].rand_seed

\* One draw per replica: `streams` holds, for each replica that draws, a triple
\* <<replica, its outcomes, the seed of the stream it draws from>>.  Replicas whose
\* streams are seeded alike, drawing from the same outcomes, draw the same (each
\* follows the first replica it is tied to).
Draws(streams) ==
    LET P == {t[1] : t \in streams}
        of(x) == (CHOOSE t \in streams : t[1] = x)[2]
        seed(x) == (CHOOSE t \in streams : t[1] = x)[3]
        Tied(x, y) == x = y \/ (SameStream(seed(x), seed(y)) /\ of(x) = of(y))
        lead(x) == CHOOSE y \in P : Tied(x, y) /\ \A z \in P : Tied(x, z) => y <= z
        Leaders == {x \in P : lead(x) = x}
    IN {[x \in P |-> d[lead(x)]] :
           d \in {f \in [Leaders -> UNION {of(x) : x \in Leaders}] :
                     \A x \in Leaders : f[x] \in of(x)}}

SubscriberOutcomes(x) == SampleOutcomes(exp[x], cfg[x])

ServerOutcomes(x) == ChoiceOutcomes(exp[x])

FailureOutcomes(x) == failure_model_apply(exp[x].heap[TopoRef])

TreeOutcomes(x) ==
    get_redundant_multicast_trees(exp[x].heap[TopoRef], exp[x].server, exp[x].subs,
                                  cfg[x].ntrees)

\* --------------------------------------------------------------- actions
Construct ==
    /\ At("init") # {}
    /\ exp' = [x \in Replicas |->
                 IF x \in At("init") THEN construct(exp[x], cfg[x]) ELSE exp[x]]
    /\ UNCHANGED cfg

ChooseSubscribers ==
    /\ At("choose_subscribers") # {}
    /\ \E d \in Draws({<<x, SubscriberOutcomes(x), ChoiceSeed(x)>> : x \in At("choose_subscribers")}) :
          exp' = [x \in Replicas |->
                    IF x \in At("choose_subscribers")
                    THEN choose_subscribers(exp[x], d[x]) ELSE exp[x]]
    /\ UNCHANGED cfg

ChooseServer ==
    /\ At("choose_server") # {}
    /\ \E d \in Draws({<<x, ServerOutcomes(x), ChoiceSeed(x)>> : x \in At("choose_server")}) :
          exp' = [x \in Replicas |->
                    IF x \in At("choose_server")
                    THEN choose_server(exp[x], d[x]) ELSE exp[x]]
    /\ UNCHANGED cfg

ApplyFailureModel ==
    /\ At("apply_failure_model") # {}
    /\ \E d \in Draws({<<x, FailureOutcomes(x), FailureSeed(x)>> : x \in At("apply_failure_model")}) :
          exp' = [x \in Replicas |->
                    IF x \in At("apply_failure_model")
                    THEN apply_failure_model(exp[x], d[x]) ELSE exp[x]]
    /\ UNCHANGED cfg

BuildMcastTrees ==
    /\ At("build_mcast_trees") # {}
    /\ \E d \in Draws({<<x, TreeOutcomes(x), GlobalSeed(x)>> : x \in At("build_mcast_trees")}) :
          exp' = [x \in Replicas |->
                    IF x \in At("build_mcast_trees")
                    THEN build_mcast_trees(exp[x], d[x]) ELSE exp[x]]
    /\ UNCHANGED cfg

RunExperiment ==
    /\ At("run_experiment") # {}
    /\ exp' = [x \in Replicas |->
                 IF x \in At("run_experiment") THEN run_experiment(exp[x]) ELSE exp[x]]
    /\ UNCHANGED cfg

RecordResult ==
    /\ At("record_result") # {}
    /\ exp' = [x \in Replicas |->
                 IF x \in At("record_result") THEN record_result(exp[x], cfg[x])
                 ELSE exp[x]]
    /\ UNCHANGED cfg

OutputResults ==
    /\ At("output_results") # {}
    /\ exp' = [x \in Replicas |->
                 IF x \in At("output_results") THEN output_results(exp[x]) ELSE exp[x]]
    /\ UNCHANGED cfg

Next ==
    \/ Construct
    \/ ChooseSubscribers
    \/ ChooseServer
    \/ ApplyFailureModel
    \/ BuildMcastTrees
    \/ RunExperiment
    \/ RecordResult
    \/ OutputResults

\* One experiment, any configuration (the global stream left unseeded, the default).
Init ==
    /\ cfg \in [{1} -> {c \in Configs : c.rand_seed = None /\ c.choice_rand_seed = None}]
    /\ exp = [x \in {1} |-> NewExperiment]

Spec == Init /\ [][Next]_vars

\* Two experiments of one configuration, both random seeds of the claim given; the
\* seed of the global stream is the same in both, or left unset in both.
DetConfigs ==
    {c \in Configs :
        /\ c.nruns >= 1 /\ c.nsubscribers \in {1, 2} /\ c.ntrees >= 1
        /\ c.rand_seed = None => (c.ntrees = 1 /\ c.nsubscribers = 1)
        /\ c.topo = <<"networkx">>
        /\ c.choice_rand_seed # None
        /\ KwHas(c.kwargs, "failure_rand_seed")
        /\ KwGet(c.kwargs, "failure_rand_seed") # None}

InitDet ==
    /\ cfg \in {f \in [{1, 2} -> DetConfigs] : f[1] = f[2]}
    /\ exp = [x \in {1, 2} |-> NewExperiment]

SpecDet == InitDet /\ [][Next]_vars

\* ---------------------------------------------------------------- claims
\* Reachability stated without a traversal: the nodes connected to `source` are
\* the nodes that lie in every node set that holds the source and is closed under
\* the edges.
ConnectedTo(G, source) ==
    {v \in G.nodes :
        \A S \in SUBSET G.nodes :
            (source \in S /\ \A e \in G.edges : (e \cap S # {}) => e \subseteq S)
                => v \in S}

\* The graph G with the failure instance taken out of it.
AfterFailure(G, failed_nodes, failed_links) ==
    [G EXCEPT !.nodes = @ \ failed_nodes,
              !.edges = {e \in @ \ failed_links : e \cap failed_nodes = {}}]

\* The subscribers that some one graph among `refs`, taken on its own, still
\* connects to the server after the failures.
Served(e, refs) ==
    {s \in e.subs :
        \E ref \in refs :
            LET G == AfterFailure(e.heap[ref], e.failed_nodes, e.failed_links)
            IN e.server \in G.nodes /\ s \in ConnectedTo(G, e.server)}

TreeRefs(e) == {e.trees[i] : i \in 1..Len(e.trees)}

\* res is the float n / d
IsQuotient(res, n, d) == res[1] * d = n * res[2]

Records(e) == {e.results.results[i] : i \in 1..Len(e.results.results)}

\* C1: in every trial result (the one being recorded and every recorded one) the
\* oracle's reachability is at least the reachability of the heuristic's trees.
OracleBoundsHeuristic ==
    \A x \in Replicas :
        \A rec \in Records(exp[x]) \cup
                   (IF exp[x].pc = "record_result" THEN {exp[x].result} ELSE {}) :
            FloatGeq(rec["oracle"], rec[MCAST_HEURISTIC])

\* C1 witness: a recorded trial where the oracle reaches every subscriber and the
\* trees reach half of them.
OracleAboveHeuristicRecorded ==
    \E x \in Replicas : \E rec \in Records(exp[x]) :
        rec["oracle"] = One /\ rec[MCAST_HEURISTIC] = Half

\* C2: when run_experiment returns, the value get_reachability gave for the trees
\* is |U| / |subscribers|, U the subscribers that at least one tree on its own
\* connects to the server after the failures; likewise for the topology copy.
ReachabilityIsPerGraphUnion ==
    [][\A x \in Replicas :
          (exp[x].pc = "run_experiment" /\ exp'[x].pc = "record_result") =>
              LET e == exp[x]
              IN /\ IsQuotient(exp'[x].result[MCAST_HEURISTIC],
                               Cardinality(Served(e, TreeRefs(e))), Cardinality(e.subs))
                 /\ IsQuotient(exp'[x].result["oracle"],
                               Cardinality(Served(e, {TopoRef})), Cardinality(e.subs))]_vars

\* C2 witness: two trees serve one of two subscribers (0.5) after a failure,
\* although the edges of both trees taken together would connect the other one.
UnionOfTreesWouldServeMore ==
    \E x \in Replicas :
        LET e == exp[x]
            both == Graph(UNION {e.heap[t].nodes : t \in TreeRefs(e)},
                          UNION {e.heap[t].edges : t \in TreeRefs(e)}, "")
        IN /\ e.pc = "record_result"
           /\ Len(e.trees) = 2
           /\ e.failed_links # {}
           /\ e.result[MCAST_HEURISTIC] = Half
           /\ e.subs \subseteq ConnectedTo(both, e.server)

\* C3 (as claimed): a trial whose server is among the failed nodes (its subscriber
\* set not empty, at least one tree returned) completes, and its result is 0.0
\* for the oracle and for the heuristic.
FailedServerGivesZero ==
    \A x \in Replicas :
        LET e == exp[x]
        IN (/\ e.server \in e.failed_nodes
            /\ e.subs # {}
            /\ e.trees # <<>>
            /\ e.pc \in {"record_result", "error"}) =>
              /\ e.pc = "record_result"
              /\ e.result["oracle"] = Zero
              /\ e.result[MCAST_HEURISTIC] = Zero

\* C4 (as claimed): a trial for which the heuristic returned no tree (its server
\* alive, its subscriber set not empty) does not end in an error: its result
\* holds 0.0 for the heuristic.
ZeroTreesTrialProceeds ==
    \A x \in Replicas :
        LET e == exp[x]
        IN (/\ e.trees = <<>>
            /\ e.server # ""
            /\ e.server \notin e.failed_nodes
            /\ e.subs # {}
            /\ e.pc \in {"record_result", "error"}) =>
              /\ e.pc = "record_result"
              /\ e.result[MCAST_HEURISTIC] = Zero

\* The configuration errors of the taxonomy.
ConfigurationError(c) ==
    \/ c.topo[1] # "networkx"
    \/ /\ c.topo[1] = "networkx"
       /\ \/ c.nsubscribers > Cardinality(NetworkxSdnTopology(Tail(c.topo)).hosts)
          \/ NetworkxSdnTopology(Tail(c.topo)).servers = {}

\* C5 (as claimed): an experiment of at least one trial with a configuration error
\* never gets past its construction: the error is raised there, nothing has been
\* drawn from the random stream, no result is recorded and nothing is written.
ConfigurationErrorsRaisedAtSetup ==
    \A x \in Replicas :
        LET e == exp[x]
        IN (ConfigurationError(cfg[x]) /\ cfg[x].nruns >= 1) =>
              /\ e.pc = "init" \/ (e.pc = "error" /\ e.raised_in = "init")
              /\ e.random = 0
              /\ e.results.results = <<>>
              /\ e.written = <<>>

\* C6: the canonical topology (self.topo.topo) is, at every point after the
\* construction, the graph the topology was built with.
CanonicalTopologyUnchanged ==
    \A x \in Replicas :
        TopoRef \in DOMAIN exp[x].heap =>
            exp[x].heap[TopoRef] = NetworkxSdnTopology(Tail(cfg[x].topo)).topo

\* C6 witness: in a trial after the first, a failure instance has been taken out
\* of the trial's copy of the topology.
LaterTrialPrunedItsCopy ==
    \E x \in Replicas :
        LET e == exp[x]
        IN /\ e.pc = "record_result"
           /\ e.r >= 1
           /\ e.failed_nodes \cup e.failed_links # {}
           /\ e.heap[TopoCopyRef].edges # e.heap[TopoRef].edges

NoFailureTrial(e) ==
    /\ e.pc = "record_result"
    /\ e.failed_nodes = {} /\ e.failed_links = {}
    /\ e.subs \subseteq ConnectedTo(e.heap[TopoRef], e.server)

\* C7 (as claimed): without failures, a trial's result is 1.0 for the oracle and
\* for the heuristic whenever the topology connects the server to each subscriber.
NoFailuresFullReachability ==
    \A x \in Replicas :
        NoFailureTrial(exp[x]) =>
            /\ exp[x].result["oracle"] = One
            /\ exp[x].result[MCAST_HEURISTIC] = One

\* C7 (amended): without failures, a trial's result is 1.0 for the oracle whenever
\* the topology connects the server to each subscriber, and it is 1.0 for the
\* heuristic exactly when each subscriber is connected to the server in at least
\* one of the returned trees.
NoFailuresReachabilityOfReturnedTrees ==
    \A x \in Replicas :
        LET e == exp[x]
        IN NoFailureTrial(e) =>
              /\ e.result["oracle"] = One
              /\ (e.result[MCAST_HEURISTIC] = One) <=>
                    (\A s \in e.subs : \E t \in TreeRefs(e) :
                        s \in ConnectedTo(e.heap[t], e.server))

\* C7 witness: a trial without failures, two subscribers, fewer trees than ntrees,
\* and the one tree serves both subscribers.
NoFailuresOneTreeServesAll ==
    \E x \in Replicas :
        LET e == exp[x]
        IN /\ NoFailureTrial(e)
           /\ Cardinality(e.subs) = 2
           /\ Len(e.trees) = 1 /\ cfg[x].ntrees > 1
           /\ e.result[MCAST_HEURISTIC] = One

\* Both seeds of the claim are given and the two configurations agree on them and
\* on everything but rand_seed.
BothSeedsFixed(x, y) ==
    /\ cfg[x].choice_rand_seed # None
    /\ KwHas(cfg[x].kwargs, "failure_rand_seed")
    /\ KwGet(cfg[x].kwargs, "failure_rand_seed") # None
    /\ [cfg[x] EXCEPT !.rand_seed = None] = [cfg[y] EXCEPT !.rand_seed = None]

AllSeedsFixed(x, y) ==
    BothSeedsFixed(x, y) /\ cfg[x].rand_seed # None /\ cfg[x].rand_seed = cfg[y].rand_seed

SameRecords(x, y) ==
    LET a == exp[x].results.results
        b == exp[y].results.results
    IN \A i \in 1..Len(a) : i <= Len(b) => a[i] = b[i]

ResultsInOrder ==
    \A x \in Replicas :
        LET e == exp[x]
            rs == e.results.results
        IN /\ Len(rs) = e.r
           /\ \A i \in 1..Len(rs) : rs[i]["run"] = i - 1
           /\ Len(e.written) <= 1
           /\ e.written # <<>> =>
                 /\ e.pc = "done"
                 /\ Len(rs) = cfg[x].nruns
                 /\ e.written[1] = e.results

ResultsOnlyAppended ==
    \A x \in Replicas :
        LET old == exp[x].results.results
            new == exp'[x].results.results
        IN /\ \/ new = old
              \/ Len(new) = Len(old) + 1 /\ SubSeq(new, 1, Len(old)) = old
           /\ exp[x].written # <<>> => exp'[x].written = exp[x].written

\* C9: the results list holds one record per completed trial, the i-th with
\* run = i; a step appends one record or leaves the list alone; the document is
\* written once, after all nruns trials were recorded, and holds them all.
ResultsAppendOnlyWrittenOnce == []ResultsInOrder /\ [][ResultsOnlyAppended]_vars

\* C9 witness: an experiment of two trials or more has written its results.
TwoTrialsWritten ==
    \E x \in Replicas :
        /\ exp[x].pc = "done"
        /\ Len(exp[x].written) = 1
        /\ Len(exp[x].written[1].results) >= 2

\* C10 (as claimed): constructing without failure_rand_seed among the keywords
\* succeeds, with the other params set and 'failrandseed' left out.
MissingFailSeedTolerated ==
    \A x \in Replicas :
        LET e == exp[x]
        IN (/\ ~KwHas(cfg[x].kwargs, "failure_rand_seed")
            /\ cfg[x].topo[1] = "networkx"
            /\ e.pc # "init") =>
              /\ e.raised_in # "init"
              /\ DOMAIN e.results.params =
                    {"ntrees", "nsubscribers", "failure_model", "topo", "randseed"}

====
